---- MODULE Spec2Model ----
(***************************************************************************)
(* Model of functions.py: the hourly resampling / interpolation pipeline   *)
(* (prepare_weather_data), the power scaler (calculate_max_ghi,            *)
(* calculate_power_generation), the tilt heuristic                         *)
(* (calculate_optimal_tilt_angle) and the top-level run                    *)
(* (solar_power_forecast).                                                 *)
(*                                                                         *)
(* Time.  A naive datetime is an integer number of hours counted from      *)
(* 00:00 of the calendar date `epoch` = [Year, yday].  Sample timestamps   *)
(* are on the hour, as the forecast source delivers them.                  *)
(*                                                                         *)
(* Temperatures.  A table cell is <<v>> (a value) or <<>> (NaN).  Sample   *)
(* temperatures are integers; every temp column is kept in units of        *)
(* 1/Cadence degree so that the linear up-sampling of the 3-hourly samples *)
(* is exact.  A mean is kept as the exact fraction <<sum, count>>.         *)
(* Floating-point rounding is not modelled.                                *)
(***************************************************************************)
EXTENDS Integers, Sequences, FiniteSets, TLC

VARIABLES
    pc,                     \* position of the run
    epoch,                  \* calendar date of datetime 0: [Year, yday]
    weather_forecast_data,  \* the sample list: [dt, temp] records
    hourly_forecast_df,     \* prepare_weather_data: up-sampled, shifted samples
    start_date,             \* prepare_weather_data: start_date
    forecast_df_full,       \* prepare_weather_data: the 8-day grid joined with the samples
    interpolated_df,        \* prepare_weather_data: the grid after the bucket fill / features
    prepared_data,          \* the table prepare_weather_data returns
    lat,                    \* latitude
    capacity,               \* plant capacity
    country,                \* geocoded country name
    weather_status,         \* status code of the forecast source's answer
    nrel_response,          \* answer of the ceiling source
    max_ghi,                \* ceiling returned by calculate_max_ghi
    power_df,               \* table handled by predict_ghi / calculate_power_generation
    optimal_angle,          \* result of calculate_optimal_tilt_angle
    calls,                  \* external collaborators called so far, in order
    ret                     \* value returned by solar_power_forecast

vars == <<pc, epoch, weather_forecast_data, hourly_forecast_df, start_date,
          forecast_df_full, interpolated_df, prepared_data, lat, capacity,
          country, weather_status, nrel_response, max_ghi, power_df,
          optimal_angle, calls, ret>>

----------------------------------------------------------------------------
(* Bounds and program constants *)

MaxSamples == 10
MaxRows == 3
FullForecast == 40
Cadence == 3
UtcOffsetHours == 5
HorizonDays == 8

NaN == <<>>

Lats == {-20, 5, 40}
Caps == {-100, 0, 100}
GhiVals == {-50, 0, 300}
GhiModels == {-1, 0, 1}
USNames == {"USA", "United States", "United States of America"}
Countries == USNames \cup {"Canada"}
\* what the ceiling source answers: a status and, for 200, the max and the
\* standard deviation pandas computes over the twelve monthly averages
NrelResponses ==
    [status_code : {200}, max : {0, 5}, std : {0, 2}]
        \cup [status_code : {404, 500}, max : {0}, std : {0}]

TempVals == {-4, 20}
TempPatterns == TempVals \X TempVals
Epochs == {[Year |-> 2023, yday |-> 57], [Year |-> 2024, yday |-> 360]}

----------------------------------------------------------------------------
(* Calendar arithmetic of naive datetimes *)

IsLeap(y) == (y % 4 = 0 /\ y % 100 # 0) \/ y % 400 = 0
DaysInYear(y) == IF IsLeap(y) THEN 366 ELSE 365
DaysInMonth(y, m) ==
    IF m = 2 THEN (IF IsLeap(y) THEN 29 ELSE 28)
    ELSE IF m \in {4, 6, 9, 11} THEN 30 ELSE 31

RECURSIVE NormYD(_, _)
NormYD(y, n) ==
    IF n < 1 THEN NormYD(y - 1, n + DaysInYear(y - 1))
    ELSE IF n > DaysInYear(y) THEN NormYD(y + 1, n - DaysInYear(y))
    ELSE [Year |-> y, yday |-> n]

RECURSIVE MonthDay(_, _, _)
MonthDay(y, m, n) ==
    IF n <= DaysInMonth(y, m) THEN [Month |-> m, Day |-> n]
    ELSE MonthDay(y, m + 1, n - DaysInMonth(y, m))

\* .date() as a day number, and midnight of a day number as a datetime
DateOf(t) == t \div 24
Midnight(d) == d * 24
HourOf(t) == t % 24
YD(ep, t) == NormYD(ep.Year, ep.yday + DateOf(t))
YearOf(ep, t) == YD(ep, t).Year
tm_yday(ep, t) == YD(ep, t).yday
MonthOf(ep, t) == MonthDay(YearOf(ep, t), 1, tm_yday(ep, t)).Month
DayOf(ep, t) == MonthDay(YearOf(ep, t), 1, tm_yday(ep, t)).Day

----------------------------------------------------------------------------
(* Small helpers on sets and cells *)

SetMax(S) == CHOOSE x \in S : \A y \in S : y <= x
SetMin(S) == CHOOSE x \in S : \A y \in S : x <= y
RECURSIVE SetSum(_, _)
SetSum(S, f) ==
    IF S = {} THEN 0
    ELSE LET x == CHOOSE e \in S : TRUE IN f[x] + SetSum(S \ {x}, f)
Known(c) == c # NaN
Val(c) == c[1]

\* the sample list the forecast source returns: n samples every Cadence
\* hours from UTC hour t0, temperatures alternating over the pattern pat
Samples(t0, n, pat) ==
    [i \in 1..n |-> [dt |-> t0 + Cadence * (i - 1),
                     temp |-> pat[((i - 1) % 2) + 1]]]

----------------------------------------------------------------------------
(* prepare_weather_data *)

\* lines 42-50: DataFrame, to_datetime, resample('H').interpolate(),
\* reset_index, shift by -5 hours
Resample(data) ==
    LET first == SetMin({data[i].dt : i \in 1..Len(data)})
        last == SetMax({data[i].dt : i \in 1..Len(data)})
        at(t) ==
            LET p == CHOOSE i \in 1..Len(data) :
                        /\ data[i].dt <= t
                        /\ \A k \in 1..Len(data) : data[k].dt <= t => data[k].dt <= data[i].dt
                q == CHOOSE j \in 1..Len(data) :
                        /\ data[j].dt >= t
                        /\ \A k \in 1..Len(data) : data[k].dt >= t => data[k].dt >= data[j].dt
            IN IF data[p].dt = data[q].dt THEN Cadence * data[p].temp
               ELSE (Cadence * (data[p].temp * (data[q].dt - t)
                                + data[q].temp * (t - data[p].dt)))
                        \div (data[q].dt - data[p].dt)
    IN [k \in 1..(last - first + 1) |->
            [datetime |-> first + (k - 1) - UtcOffsetHours,
             temp |-> <<at(first + (k - 1))>>]]

\* line 53
StartDate(hourly) == SetMin({hourly[i].datetime : i \in 1..Len(hourly)})
\* line 54
EndDate(start) == start + HorizonDays * 24

\* lines 56-57: date_range(start, end, freq='H') is inclusive at both ends;
\* reindex leaves NaN where the up-sampled samples have no row
Reindex(hourly, start, end) ==
    [k \in 1..(end - start + 1) |->
        LET t == start + (k - 1)
            hit == {i \in 1..Len(hourly) : hourly[i].datetime = t}
        IN [datetime |-> t,
            temp |-> IF hit = {} THEN NaN ELSE hourly[CHOOSE i \in hit : TRUE].temp]]

BeforeCeiling_ThroughMidnight(rows, end) ==
    SelectSeq(rows, LAMBDA r : r.datetime <= Midnight(DateOf(end)))

\* line 58: keep the rows before midnight of end_date's calendar day
BeforeCeiling(rows, end) ==
    SelectSeq(rows, LAMBDA r : r.datetime < Midnight(DateOf(end)))

BuildGrid(hourly, start) ==
    BeforeCeiling(Reindex(hourly, start, EndDate(start)), EndDate(start))

\* line 65: the rows of one hour of day, in grid order
HourlyData(rows, hour) == SelectSeq(rows, LAMBDA r : HourOf(r.datetime) = hour)

\* line 68: DataFrame.interpolate(method='linear') on the temp column of one
\* bucket: rows are equally spaced, an interior gap is filled on the line
\* between its neighbours, a trailing gap repeats the last value and a leading
\* gap stays NaN (limit_direction defaults to 'forward').  The quotient of an
\* interior gap is taken with \div; the known rows of a bucket lie on
\* consecutive days, so no reachable grid has an interior gap.
Interpolate(col) ==
    [p \in 1..Len(col) |->
        IF Known(col[p]) THEN col[p]
        ELSE LET before == {i \in 1..(p - 1) : Known(col[i])}
                 after == {j \in (p + 1)..Len(col) : Known(col[j])}
             IN IF before = {} THEN NaN
                ELSE IF after = {} THEN col[SetMax(before)]
                ELSE LET i == SetMax(before)
                         j == SetMin(after)
                     IN <<(Val(col[i]) * (j - p) + Val(col[j]) * (p - i)) \div (j - i)>>]

\* line 71: fillna(method='bfill')
Bfill(col) ==
    [p \in 1..Len(col) |->
        IF Known(col[p]) THEN col[p]
        ELSE LET after == {j \in (p + 1)..Len(col) : Known(col[j])}
             IN IF after = {} THEN NaN ELSE col[SetMin(after)]]

\* line 72: fillna(method='ffill')
Ffill(col) ==
    [p \in 1..Len(col) |->
        IF Known(col[p]) THEN col[p]
        ELSE LET before == {i \in 1..(p - 1) : Known(col[i])}
             IN IF before = {} THEN NaN ELSE col[SetMax(before)]]

\* lines 65-72: one pass of the loop body
FillBucket(rows, hour) ==
    LET hourly_data == HourlyData(rows, hour)
        col == [p \in 1..Len(hourly_data) |-> hourly_data[p].temp]
        filled == Ffill(Bfill(Interpolate(col)))
    IN [p \in 1..Len(hourly_data) |->
            [datetime |-> hourly_data[p].datetime, temp |-> filled[p]]]

\* lines 61-75: the loop over the 24 buckets, concatenating each filled bucket
RECURSIVE ConcatBuckets(_, _)
ConcatBuckets(rows, hour) ==
    IF hour < 0 THEN <<>>
    ELSE ConcatBuckets(rows, hour - 1) \o FillBucket(rows, hour)

\* line 78: sort_values(by='datetime')
SortByDatetime(rows) == SortSeq(rows, LAMBDA a, b : a.datetime < b.datetime)

InterpolateGrid(rows) == SortByDatetime(ConcatBuckets(rows, 23))

\* lines 81-84: the calendar columns
WithCalendar(ep, rows) ==
    [p \in 1..Len(rows) |->
        [datetime |-> rows[p].datetime, temp |-> rows[p].temp,
         Month |-> MonthOf(ep, rows[p].datetime),
         Hour |-> HourOf(rows[p].datetime),
         Day |-> DayOf(ep, rows[p].datetime),
         Year |-> YearOf(ep, rows[p].datetime)]]

\* lines 87-91: groupby (Year, Month, Day) with max / min / mean; the
\* aggregates skip NaN and are NaN for a group without any value
DayKey(r) == <<r.Year, r.Month, r.Day>>
GroupTemps(rows, key) ==
    {p \in 1..Len(rows) : DayKey(rows[p]) = key /\ Known(rows[p].temp)}
AggMax(rows, key) ==
    LET g == GroupTemps(rows, key)
    IN IF g = {} THEN NaN ELSE <<SetMax({Val(rows[p].temp) : p \in g})>>
AggMin(rows, key) ==
    LET g == GroupTemps(rows, key)
    IN IF g = {} THEN NaN ELSE <<SetMin({Val(rows[p].temp) : p \in g})>>
AggMean_CountAllRows(rows, key) ==
    LET g == GroupTemps(rows, key)
    IN IF g = {} THEN NaN
       ELSE <<SetSum(g, [p \in g |-> Val(rows[p].temp)]),
              Cardinality({p \in 1..Len(rows) : DayKey(rows[p]) = key})>>
AggMean(rows, key) ==
    LET g == GroupTemps(rows, key)
    IN IF g = {} THEN NaN
       ELSE <<SetSum(g, [p \in g |-> Val(rows[p].temp)]), Cardinality(g)>>
DailyStats(rows) ==
    [key \in {DayKey(rows[p]) : p \in 1..Len(rows)} |->
        [max_temp |-> AggMax(rows, key), min_temp |-> AggMin(rows, key),
         avg_temp |-> AggMean(rows, key)]]

\* line 96
TempDiff(hi, lo) == IF Known(hi) /\ Known(lo) THEN <<Val(hi) - Val(lo)>> ELSE NaN

\* lines 94-96: merge on (Year, Month, Day), which keeps the left order, and
\* the temp_diff column
Merge(rows, stats) ==
    [p \in 1..Len(rows) |->
        LET s == stats[DayKey(rows[p])]
        IN [datetime |-> rows[p].datetime, temp |-> rows[p].temp,
            Month |-> rows[p].Month, Hour |-> rows[p].Hour,
            Day |-> rows[p].Day, Year |-> rows[p].Year,
            max_temp |-> s.max_temp, min_temp |-> s.min_temp,
            avg_temp |-> s.avg_temp,
            temp_diff |-> TempDiff(s.max_temp, s.min_temp)]]

DeriveFeatures(ep, rows) ==
    LET cal == WithCalendar(ep, rows) IN Merge(cal, DailyStats(cal))

FromNextDay_SkipMidnight(rows, start) ==
    SelectSeq(rows, LAMBDA r : r.datetime > Midnight(DateOf(start) + 1))

\* lines 97-98: keep the rows from midnight of the day after start_date
FromNextDay(rows, start) ==
    SelectSeq(rows, LAMBDA r : r.datetime >= Midnight(DateOf(start) + 1))

----------------------------------------------------------------------------
(* predict_ghi, calculate_max_ghi, calculate_power_generation *)

\* lines 113-116: the pre-trained model is an external artifact; it is a
\* deterministic function of the feature row, here one of a small family
Predict(m, row) == m * 10 * (row.Hour - 6)
PredictGhi(m, df) ==
    [p \in 1..Len(df) |-> ("ghi_forecasted" :> Predict(m, df[p])) @@ df[p]]

CalculateMaxGhi_NoFallback(response) == (response.max + response.std) * 100

\* lines 134-142
CalculateMaxGhi(response) ==
    IF response.status_code = 200
    THEN (response.max + response.std) * 100
    ELSE 1000

\* A power cell is the exact fraction [num, den]; den = 0 is the IEEE result
\* of the division by a zero ceiling: +inf (num > 0), -inf (num < 0) or
\* NaN (num = 0).
IsNegative(x) ==
    \/ x.den > 0 /\ x.num < 0
    \/ x.den < 0 /\ x.num > 0
    \/ x.den = 0 /\ x.num < 0
IsZero(x) == x.den # 0 /\ x.num = 0
IsNonNegative(x) ==
    \/ x.den > 0 /\ x.num >= 0
    \/ x.den < 0 /\ x.num <= 0
    \/ x.den = 0 /\ x.num > 0

Clamp_Missing(x) == x

\* line 162: lambda x: 0 if x < 0 else x
Clamp(x) == IF IsNegative(x) THEN [num |-> 0, den |-> 1] ELSE x

\* lines 160-162: ratio = capacity / max_ghi; power = ghi_forecasted * ratio
Scale(df, cap, ceiling) ==
    [p \in 1..Len(df) |->
        ("power" :> Clamp([num |-> df[p].ghi_forecasted * cap, den |-> ceiling]))
            @@ df[p]]

----------------------------------------------------------------------------
(* calculate_optimal_tilt_angle *)

Max(a, b) == IF a >= b THEN a ELSE b

TiltFor_WinterFirst(latitude, day_of_year) ==
    IF day_of_year >= 356 \/ day_of_year <= 79 THEN latitude + 15
    ELSE IF day_of_year >= 79 /\ day_of_year <= 263 THEN latitude
    ELSE Max(latitude - 15, 0)

\* lines 212-217
TiltFor(latitude, day_of_year) ==
    IF day_of_year >= 79 /\ day_of_year <= 263 THEN latitude
    ELSE IF day_of_year >= 356 \/ day_of_year <= 79 THEN latitude + 15
    ELSE Max(latitude - 15, 0)

\* lines 209-220
CalculateOptimalTiltAngle(ep, df, latitude) ==
    TiltFor(latitude, tm_yday(ep, df[1].datetime))

----------------------------------------------------------------------------
(* State machine *)

NoResponse == [status_code |-> 0, max |-> 0, std |-> 0]
Pending == [kind |-> "pending", table |-> <<>>, angle |-> 0]
Absent == [kind |-> "None", table |-> <<>>, angle |-> 0]

\* the variables prepare_weather_data writes, before it has run
PrepBlank ==
    /\ hourly_forecast_df = <<>>
    /\ start_date = 0
    /\ forecast_df_full = <<>>
    /\ interpolated_df = <<>>
    /\ prepared_data = <<>>

\* the variables of the later stages, before they have run
StagesBlank ==
    /\ nrel_response = NoResponse
    /\ max_ghi = 0
    /\ optimal_angle = 0
    /\ ret = Pending

\* --- prepare_weather_data, step by step ---

\* line 42-44 on an empty list: the frame has no 'datetime' column
PrepEmpty ==
    /\ pc = "prepare"
    /\ weather_forecast_data = <<>>
    /\ pc' = "raised"
    /\ UNCHANGED <<epoch, weather_forecast_data, hourly_forecast_df, start_date,
                   forecast_df_full, interpolated_df, prepared_data, lat,
                   capacity, country, weather_status, nrel_response, max_ghi,
                   power_df, optimal_angle, calls, ret>>

\* lines 42-50
PrepResample ==
    /\ pc = "prepare"
    /\ weather_forecast_data # <<>>
    /\ hourly_forecast_df' = Resample(weather_forecast_data)
    /\ pc' = "grid"
    /\ UNCHANGED <<epoch, weather_forecast_data, start_date, forecast_df_full,
                   interpolated_df, prepared_data, lat, capacity, country,
                   weather_status, nrel_response, max_ghi, power_df,
                   optimal_angle, calls, ret>>

\* lines 53-58
PrepGrid ==
    /\ pc = "grid"
    /\ start_date' = StartDate(hourly_forecast_df)
    /\ forecast_df_full' = BuildGrid(hourly_forecast_df, start_date')
    /\ pc' = "interpolate"
    /\ UNCHANGED <<epoch, weather_forecast_data, hourly_forecast_df,
                   interpolated_df, prepared_data, lat, capacity, country,
                   weather_status, nrel_response, max_ghi, power_df,
                   optimal_angle, calls, ret>>

\* lines 61-78
PrepInterpolate ==
    /\ pc = "interpolate"
    /\ interpolated_df' = InterpolateGrid(forecast_df_full)
    /\ pc' = "features"
    /\ UNCHANGED <<epoch, weather_forecast_data, hourly_forecast_df, start_date,
                   forecast_df_full, prepared_data, lat, capacity, country,
                   weather_status, nrel_response, max_ghi, power_df,
                   optimal_angle, calls, ret>>

\* lines 81-96
PrepFeatures ==
    /\ pc = "features"
    /\ interpolated_df' = DeriveFeatures(epoch, interpolated_df)
    /\ pc' = "trim"
    /\ UNCHANGED <<epoch, weather_forecast_data, hourly_forecast_df, start_date,
                   forecast_df_full, prepared_data, lat, capacity, country,
                   weather_status, nrel_response, max_ghi, power_df,
                   optimal_angle, calls, ret>>

\* lines 97-99
PrepReturn ==
    /\ pc = "trim"
    /\ prepared_data' = FromNextDay(interpolated_df, start_date)
    /\ pc' = "predict"
    /\ UNCHANGED <<epoch, weather_forecast_data, hourly_forecast_df, start_date,
                   forecast_df_full, interpolated_df, lat, capacity, country,
                   weather_status, nrel_response, max_ghi, power_df,
                   optimal_angle, calls, ret>>

\* --- calculate_power_generation (lines 159-162, calling calculate_max_ghi) ---
CalculatePowerGeneration ==
    /\ pc = "power"
    /\ \E response \in NrelResponses :
        /\ nrel_response' = response
        /\ max_ghi' = CalculateMaxGhi(response)
        /\ power_df' = Scale(power_df, capacity, max_ghi')
    /\ calls' = calls \o <<"calculate_power_generation", "calculate_max_ghi">>
    /\ pc' = "tilt"
    /\ UNCHANGED <<epoch, weather_forecast_data, hourly_forecast_df, start_date,
                   forecast_df_full, interpolated_df, prepared_data, lat,
                   capacity, country, weather_status, optimal_angle, ret>>

\* --- calculate_optimal_tilt_angle (lines 209-220) ---
CalculateTilt ==
    /\ pc = "tilt"
    /\ optimal_angle' = CalculateOptimalTiltAngle(epoch, power_df, lat)
    /\ calls' = Append(calls, "calculate_optimal_tilt_angle")
    /\ pc' = "return"
    /\ UNCHANGED <<epoch, weather_forecast_data, hourly_forecast_df, start_date,
                   forecast_df_full, interpolated_df, prepared_data, lat,
                   capacity, country, weather_status, nrel_response, max_ghi,
                   power_df, ret>>

\* --- solar_power_forecast ---

\* line 238
FetchLocationDetails ==
    /\ pc = "geocode"
    /\ \E c \in Countries : country' = c
    /\ calls' = Append(calls, "fetch_location_details")
    /\ pc' = "gate"
    /\ UNCHANGED <<epoch, weather_forecast_data, hourly_forecast_df, start_date,
                   forecast_df_full, interpolated_df, prepared_data, lat,
                   capacity, weather_status, nrel_response, max_ghi, power_df,
                   optimal_angle, ret>>

IsUS_AnyCountry(c) == c # ""

\* line 239
IsUS(c) == c \in USNames

\* lines 239-241
UnsupportedRegion ==
    /\ pc = "gate"
    /\ ~IsUS(country)
    /\ ret' = Absent
    /\ pc' = "done"
    /\ UNCHANGED <<epoch, weather_forecast_data, hourly_forecast_df, start_date,
                   forecast_df_full, interpolated_df, prepared_data, lat,
                   capacity, country, weather_status, nrel_response, max_ghi,
                   power_df, optimal_angle, calls>>

\* the sample lists the forecast source answers with in the top-level run
MainLists ==
    {Samples(t0, n, <<-4, 20>>) : t0 \in {0, 9}, n \in {0, 1, FullForecast}}

\* lines 23-28: the list of a 200 answer, the empty list otherwise
FetchResult(status_code, list) == IF status_code = 200 THEN list ELSE <<>>

\* line 244 (fetch_weather_forecast, lines 21-28)
FetchWeatherForecast ==
    /\ pc = "gate"
    /\ IsUS(country)
    /\ \E status_code \in {200, 401}, list \in MainLists :
        /\ weather_status' = status_code
        /\ weather_forecast_data' = FetchResult(status_code, list)
    /\ calls' = Append(calls, "fetch_weather_forecast")
    /\ pc' = "check"
    /\ UNCHANGED <<epoch, hourly_forecast_df, start_date, forecast_df_full,
                   interpolated_df, prepared_data, lat, capacity, country,
                   nrel_response, max_ghi, power_df, optimal_angle, ret>>

\* lines 245, 251-253
NoForecast ==
    /\ pc = "check"
    /\ weather_forecast_data = <<>>
    /\ ret' = Absent
    /\ pc' = "done"
    /\ UNCHANGED <<epoch, weather_forecast_data, hourly_forecast_df, start_date,
                   forecast_df_full, interpolated_df, prepared_data, lat,
                   capacity, country, weather_status, nrel_response, max_ghi,
                   power_df, optimal_angle, calls>>

\* lines 245-246: the call of prepare_weather_data
CallPrepare ==
    /\ pc = "check"
    /\ weather_forecast_data # <<>>
    /\ calls' = Append(calls, "prepare_weather_data")
    /\ pc' = "prepare"
    /\ UNCHANGED <<epoch, weather_forecast_data, hourly_forecast_df, start_date,
                   forecast_df_full, interpolated_df, prepared_data, lat,
                   capacity, country, weather_status, nrel_response, max_ghi,
                   power_df, optimal_angle, ret>>

\* line 247 (predict_ghi, lines 113-117)
CallPredict ==
    /\ pc = "predict"
    /\ \E m \in GhiModels : power_df' = PredictGhi(m, prepared_data)
    /\ calls' = Append(calls, "predict_ghi")
    /\ pc' = "power"
    /\ UNCHANGED <<epoch, weather_forecast_data, hourly_forecast_df, start_date,
                   forecast_df_full, interpolated_df, prepared_data, lat,
                   capacity, country, weather_status, nrel_response, max_ghi,
                   optimal_angle, ret>>

\* line 250
ReturnPair ==
    /\ pc = "return"
    /\ ret' = [kind |-> "pair", table |-> power_df, angle |-> optimal_angle]
    /\ pc' = "done"
    /\ UNCHANGED <<epoch, weather_forecast_data, hourly_forecast_df, start_date,
                   forecast_df_full, interpolated_df, prepared_data, lat,
                   capacity, country, weather_status, nrel_response, max_ghi,
                   power_df, optimal_angle, calls>>

----------------------------------------------------------------------------
(* Specifications *)

\* prepare_weather_data on every sample list of the bounded family
SampleCounts == (0..MaxSamples) \cup {FullForecast}

InitPrep ==
    /\ pc = "prepare"
    /\ epoch \in Epochs
    /\ \E t0 \in 0..23, n \in SampleCounts, pat \in TempPatterns :
            weather_forecast_data = Samples(t0, n, pat)
    /\ PrepBlank
    /\ StagesBlank
    /\ lat = 40
    /\ capacity = 100
    /\ country = ""
    /\ weather_status = 200
    /\ power_df = <<>>
    /\ calls = <<>>

NextPrep ==
    \/ PrepEmpty
    \/ PrepResample
    \/ PrepGrid
    \/ PrepInterpolate
    \/ PrepFeatures
    \/ PrepReturn

SpecPrep == InitPrep /\ [][NextPrep]_vars


----------------------------------------------------------------------------
\* calculate_power_generation on every small table of forecasted irradiance
GhiRows == [Hour : {7}, ghi_forecasted : GhiVals]
GhiTables == UNION {[1..n -> GhiRows] : n \in 1..MaxRows}

InitPower ==
    /\ pc = "power"
    /\ power_df \in GhiTables
    /\ capacity \in Caps
    /\ epoch \in {[Year |-> 2023, yday |-> 57]}
    /\ weather_forecast_data = <<>>
    /\ PrepBlank
    /\ StagesBlank
    /\ lat = 40
    /\ country = ""
    /\ weather_status = 200
    /\ calls = <<>>

NextPower == CalculatePowerGeneration

SpecPower == InitPower /\ [][NextPower]_vars

\* calculate_optimal_tilt_angle on every latitude and every first-row date
AllDays == {[Year |-> y, yday |-> d] : y \in {2023, 2024}, d \in 1..366}

InitTilt ==
    /\ pc = "tilt"
    /\ epoch \in {e \in AllDays : e.yday <= DaysInYear(e.Year)}
    /\ lat \in Lats
    /\ power_df = <<[datetime |-> 0]>>
    /\ weather_forecast_data = <<>>
    /\ PrepBlank
    /\ StagesBlank
    /\ capacity = 100
    /\ country = ""
    /\ weather_status = 200
    /\ calls = <<>>

NextTilt == CalculateTilt

SpecTilt == InitTilt /\ [][NextTilt]_vars

\* solar_power_forecast
InitMain ==
    /\ pc = "geocode"
    /\ epoch \in Epochs
    /\ lat \in Lats
    /\ capacity \in Caps
    /\ weather_forecast_data = <<>>
    /\ PrepBlank
    /\ StagesBlank
    /\ country = ""
    /\ weather_status = 0
    /\ power_df = <<>>
    /\ calls = <<>>

NextMain ==
    \/ FetchLocationDetails
    \/ UnsupportedRegion
    \/ FetchWeatherForecast
    \/ NoForecast
    \/ CallPrepare
    \/ PrepResample
    \/ PrepGrid
    \/ PrepInterpolate
    \/ PrepFeatures
    \/ PrepReturn
    \/ CallPredict
    \/ CalculatePowerGeneration
    \/ CalculateTilt
    \/ ReturnPair

SpecMain == InitMain /\ [][NextMain]_vars

----------------------------------------------------------------------------
(* Properties *)

Contiguous(rows) ==
    \A i \in 1..(Len(rows) - 1) : rows[i + 1].datetime = rows[i].datetime + 1
SpanHours(data) == data[Len(data)].dt - data[1].dt
GridBuilt == pc \in {"interpolate", "features", "trim", "predict"}
Interpolated == pc \in {"features", "trim", "predict"}
Returned == pc = "predict"
SpansOneDay ==
    weather_forecast_data # <<>> /\ SpanHours(weather_forecast_data) >= 24
EmptyBucket(rows) ==
    \E hour \in 0..23 :
        \A p \in 1..Len(rows) : HourOf(rows[p].datetime) = hour => ~Known(rows[p].temp)

\* C1 as stated: for every sample sequence spanning at least one day the
\* grid built before interpolation has exactly 8*24 = 192 hourly timestamps,
\* strictly increasing, without duplicate or skipped hour.
C1_GridHas192Hours ==
    (GridBuilt /\ SpansOneDay) =>
        /\ Len(forecast_df_full) = 8 * 24
        /\ Contiguous(forecast_df_full)

\* C1 amended: for every sample sequence spanning at least one day the grid
\* built before interpolation holds every hour from the shifted start up to,
\* but excluding, midnight of the ceiling day: 8*24 - h timestamps, h the
\* hour of day of the start (192 only for a start at midnight), strictly
\* increasing, without duplicate or skipped hour.
C1_GridFromStartToCeiling ==
    (GridBuilt /\ SpansOneDay) =>
        /\ Len(forecast_df_full) = 8 * 24 - (start_date % 24)
        /\ forecast_df_full[1].datetime = start_date
        /\ start_date = weather_forecast_data[1].dt - 5
        /\ forecast_df_full[Len(forecast_df_full)].datetime
              = 24 * ((start_date \div 24) + 8) - 1
        /\ Contiguous(forecast_df_full)

C1_Witness ==
    /\ pc = "interpolate"
    /\ SpansOneDay
    /\ start_date % 24 = 19
    /\ Len(forecast_df_full) = 173

\* C2: for every non-empty sample sequence and every start time of day the
\* returned table has exactly 7 * 24 = 168 rows, one per hour, contiguous and
\* ascending, covering exactly the 7 calendar days that start the day after
\* the grid's start day.
C2_Returns168Rows ==
    Returned =>
        /\ Len(prepared_data) = 7 * 24
        /\ Contiguous(prepared_data)
        /\ prepared_data[1].datetime = 24 * ((start_date \div 24) + 1)
        /\ \A p \in 1..Len(prepared_data) :
              /\ prepared_data[p].Hour = (p - 1) % 24
              /\ (prepared_data[p].datetime \div 24) - (start_date \div 24)
                    = 1 + ((p - 1) \div 24)
        /\ Cardinality({<<prepared_data[p].Year, prepared_data[p].Month,
                          prepared_data[p].Day>> : p \in 1..Len(prepared_data)}) = 7

C2_Witness ==
    /\ Returned
    /\ Len(weather_forecast_data) = 1
    /\ start_date % 24 = 23
    /\ Len(forecast_df_full) = 169
    /\ Len(prepared_data) = 168

\* C3: after the per-hour-of-day interpolation, backward fill, forward fill
\* and recombination, every grid row has a temperature, for every grid built
\* from a non-empty sample sequence, however short.
C3_NoMissingTemperature ==
    Interpolated =>
        \A p \in 1..Len(interpolated_df) : Known(interpolated_df[p].temp)

\* C4: whenever an hour-of-day bucket has no known temperature after the
\* samples are joined onto the grid, the interpolation stops with a fatal
\* error: the run gets past the interpolation, and returns a table, only
\* when no bucket was empty.
C4_EmptyBucketIsFatal ==
    (GridBuilt /\ EmptyBucket(forecast_df_full)) =>
        /\ pc = "interpolate"
        /\ prepared_data = <<>>

\* C5: in the returned table every row of one calendar day carries the same
\* max_temp, min_temp and avg_temp; these are the maximum, the minimum and
\* the arithmetic mean of the temperatures of the grid rows of that day; and
\* max_temp >= avg_temp >= min_temp and temp_diff = max_temp - min_temp.
C5_DailyStats ==
    Returned =>
        /\ \A d \in {prepared_data[p].datetime \div 24 : p \in 1..Len(prepared_data)} :
            LET g == {q \in 1..Len(interpolated_df) :
                        /\ interpolated_df[q].datetime \div 24 = d
                        /\ interpolated_df[q].temp # <<>>}
                T == {interpolated_df[q].temp[1] : q \in g}
                sum == SetSum(g, [q \in g |-> interpolated_df[q].temp[1]])
            IN /\ g # {}
               /\ \A p \in 1..Len(prepared_data) :
                    prepared_data[p].datetime \div 24 = d =>
                        LET r == prepared_data[p]
                        IN /\ r.max_temp # <<>> /\ r.min_temp # <<>>
                           /\ r.max_temp[1] \in T /\ \A t \in T : t <= r.max_temp[1]
                           /\ r.min_temp[1] \in T /\ \A t \in T : t >= r.min_temp[1]
                           /\ r.avg_temp = <<sum, Cardinality(g)>>
                           /\ r.max_temp[1] * r.avg_temp[2] >= r.avg_temp[1]
                           /\ r.avg_temp[1] >= r.min_temp[1] * r.avg_temp[2]
                           /\ r.temp_diff = <<r.max_temp[1] - r.min_temp[1]>>
        /\ \A p \in 2..Len(prepared_data) :
            LET r == prepared_data[p]
                q == prepared_data[p - 1]
            IN (r.Year = q.Year /\ r.Month = q.Month /\ r.Day = q.Day) =>
                  /\ r.max_temp = q.max_temp
                  /\ r.min_temp = q.min_temp
                  /\ r.avg_temp = q.avg_temp

C5_Witness ==
    /\ Returned
    /\ Len(weather_forecast_data) = FullForecast
    /\ \E p \in 1..Len(prepared_data) :
        /\ prepared_data[p].max_temp # prepared_data[p].min_temp
        /\ prepared_data[p].max_temp[1] * prepared_data[p].avg_temp[2]
              > prepared_data[p].avg_temp[1]
        /\ prepared_data[p].temp # prepared_data[p].max_temp

Scaled == pc = "tilt"

\* C6 as stated: after calculate_power_generation, for every row and for
\* every plant capacity and ceiling value, power >= 0, and power = 0 on every
\* row whose forecasted irradiance is negative.
C6_PowerNonNegativeForEveryInput ==
    Scaled =>
        \A p \in 1..Len(power_df) :
            /\ IsNonNegative(power_df[p].power)
            /\ power_df[p].ghi_forecasted < 0 => IsZero(power_df[p].power)

\* C6 amended: after calculate_power_generation no row has a negative power,
\* and power = max(0, irradiance * capacity / ceiling) whenever the ceiling
\* is not zero; for every capacity >= 0 and every ceiling > 0, power >= 0 on
\* every row and power = 0 on every row whose forecasted irradiance is
\* negative.
C6_PowerClamped ==
    Scaled =>
        \A p \in 1..Len(power_df) :
            LET x == power_df[p].power
                ghi == power_df[p].ghi_forecasted
            IN /\ ~(x.num * x.den < 0)
               /\ ~(x.den = 0 /\ x.num < 0)
               /\ max_ghi # 0 =>
                    IF ghi * capacity * max_ghi < 0
                    THEN x.num = 0 /\ x.den # 0
                    ELSE x.den # 0 /\ x.num * max_ghi = ghi * capacity * x.den
               /\ (capacity >= 0 /\ max_ghi > 0) =>
                    /\ x.den # 0 /\ x.num * x.den >= 0
                    /\ ghi < 0 => x.num = 0

C6_Witness ==
    /\ Scaled
    /\ capacity > 0
    /\ max_ghi > 0
    /\ \E p \in 1..Len(power_df) :
        power_df[p].ghi_forecasted < 0 /\ power_df[p].power.num = 0
    /\ \E p \in 1..Len(power_df) :
        power_df[p].ghi_forecasted > 0 /\ power_df[p].power.num > 0

\* C7: for latitude 40 the tilt heuristic returns 40 on day-of-year 80, 55 on
\* day-of-year 1 and 25 on day-of-year 200; for latitude 5 it returns 0 on
\* day-of-year 200.
C7_TiltExamples ==
    (pc = "return" /\ power_df[1].datetime = 0) =>
        /\ (lat = 40 /\ epoch.yday = 80) => optimal_angle = 40
        /\ (lat = 40 /\ epoch.yday = 1) => optimal_angle = 55
        /\ (lat = 40 /\ epoch.yday = 200) => optimal_angle = 25
        /\ (lat = 5 /\ epoch.yday = 200) => optimal_angle = 0

FullRun ==
    <<"fetch_location_details", "fetch_weather_forecast", "prepare_weather_data",
      "predict_ghi", "calculate_power_generation", "calculate_max_ghi",
      "calculate_optimal_tilt_angle">>

C10_TiltBranches ==
    (pc = "return" /\ power_df[1].datetime = 0) =>
        /\ epoch.yday \in 79..263 => optimal_angle = lat
        /\ epoch.yday \in (1..78) \cup (356..366) => optimal_angle = lat + 15
        /\ epoch.yday \in 264..355 =>
              optimal_angle = (IF lat > 15 THEN lat - 15 ELSE 0)

C10_Witness ==
    /\ pc = "return"
    /\ epoch.yday = 79
    /\ lat = 40
    /\ optimal_angle = 40

====
